---- MODULE Spec2Model ----
(***************************************************************************)
(* Model of the two-agent revision loop of 2_Revise-Plan-Stable.py:        *)
(* the main program, further_revise_plan (the Driver),                     *)
(* revise_step_with_llms (the protocol) and the two gateways               *)
(* get_claude_response / get_gemini_response.                              *)
(*                                                                         *)
(* Text is a sequence of one-character strings, so that upper() and the    *)
(* substring test of the verdict are computed, not assumed.  A prompt      *)
(* built by an f-string is the record of the values interpolated in it.    *)
(* Python lists that are shared by reference (the two histories of a       *)
(* RevisionContext) live in `heap`; a context holds their addresses.       *)
(*                                                                         *)
(* The single-process pipeline of                                          *)
(* 1_01_A_Single_Process_UserInputGoal-to-Plan-and-RevisionRequests.py     *)
(* (generate_plan, develop_drafts, generate_revision_requests,             *)
(* compile_final_plan, save_plan_outputs) is a second specification,       *)
(* PipelineSpec; its globals are the fields of `pipeline`.                 *)
(***************************************************************************)
EXTENDS Integers, Sequences, FiniteSets, TLC

\* ---------------------------------------------------------------- bounds
\* number of steps of the longest outline drawn by Init
MaxSteps == 2

\* ------------------------------------------------------------- constants
MAX_ITERATIONS == 3

\* ------------------------------------------------------------------ text
Missing == <<"<missing>">>
\* stands for a key that the loaded JSON object does not have
NoName == "<missing>"

C0 == <<"c", "0">>
RQ == <<"r", "q">>
I1 == <<"i", "1">>
V1 == <<"v", "1">>
V2 == <<"v", "2">>

StepNames == <<"Intro", "Body", "Outro">>
\* name of the i-th step of an outline (names are unique within a plan)
RequestKeys == {"Intro", "Body", "Ghost"}
\* "Ghost" names no step of any outline

InstructReplies == {I1, <<>>}
ReviserReplies == {V1, V2, <<>>}
\* "NO - not yet ready"
NotYetReady ==
    <<"N", "O", " ", "-", " ", "n", "o", "t", " ", "y", "e", "t", " ",
      "r", "e", "a", "d", "y">>

\* "yesterday"
Yesterday == <<"y", "e", "s", "t", "e", "r", "d", "a", "y">>

ReviewReplies == { <<"Y", "E", "S">>, NotYetReady, Yesterday, <<>> }
\* texts the instructor and the reviser backends may answer with

ErrorKinds == {"rate_limit", "auth", "malformed"}
\* rate_limit: transient provider exception; auth: permanent provider
\* exception; malformed: the call returns but the reply has no text
\* (response.content[0] / response.text raises)

\* str.upper() on the characters that occur in the replies
UpperChar(c) ==
    CASE c = "y" -> "Y"
      [] c = "e" -> "E"
      [] c = "s" -> "S"
      [] c = "n" -> "N"
      [] c = "o" -> "O"
      [] c = "t" -> "T"
      [] c = "r" -> "R"
      [] c = "a" -> "A"
      [] c = "d" -> "D"
      [] OTHER -> c

Upper(s) == [i \in 1..Len(s) |-> UpperChar(s[i])]

\* Python's `sub in s`
Contains(s, sub) ==
    \E i \in 0..(Len(s) - Len(sub)) :
        \A j \in 1..Len(sub) : s[i + j] = sub[j]

\* upper() forgotten: only the capital token is found
IsAcceptedCaseSensitive(verdict) == Contains(verdict, <<"Y", "E", "S">>)

\* line 283: "YES" in verdict.upper()
IsAccepted(verdict) == Contains(Upper(verdict), <<"Y", "E", "S">>)

\* Python truthiness of an Optional[str]: None and "" are falsy
None == <<"<None>">>

\* only None tested, the empty text let through
FalsyNoneOnly(x) == x = None

\* only the empty text tested, None let through
FalsyEmptyOnly(x) == x = <<>>

Falsy(x) == x = None \/ x = <<>>

\* ---------------------------------------------------------------- state
VARIABLES
    file,               \* project_plan.json: [status, data]
    pc,                 \* position of the single thread of control
    plan,               \* the plan object, mutated in place (revised_plan / plan)
    idx,                \* further_revise_plan: number of steps the for loop has taken
    revision_contexts,  \* further_revise_plan: step name -> RevisionContext
    completed_steps,    \* further_revise_plan: counter
    context,            \* revise_step_with_llms: the RevisionContext
    heap,               \* the history lists created so far: address -> list of messages
    gemini_prompt,      \* revise_step_with_llms: local
    revised_content,    \* revise_step_with_llms: local
    step_result,        \* first component of the value returned by revise_step_with_llms, or "raised"
    result,             \* the value returned by further_revise_plan
    saved,              \* the files written by save_revised_plan
    request,            \* the last request handed to a provider
    calls,              \* the provider requests issued so far, in order
    pipeline            \* the single-process pipeline: its globals and position

vars == <<file, pc, plan, idx, revision_contexts, completed_steps,
          context, heap, gemini_prompt, revised_content, step_result,
          result, saved, request, calls, pipeline>>

\* ---------------------------------------------------------- input plans
\* JSON null as the text of a revision request
Null == <<"<null>">>

PlanKeys == {"Detailed_Outline", "revision_requests"}

\* the i-th step of an outline; a missing key is the value Missing / NoName
Step(i, hasName, c) ==
    [name |-> IF hasName THEN StepNames[i] ELSE NoName, content |-> c]

Outlines ==
    UNION { [1..n -> BOOLEAN \X {C0, Missing}] : n \in 0..MaxSteps }

OutlineOf(o) == [i \in DOMAIN o |-> Step(i, o[i][1], o[i][2])]

RequestMaps == UNION { [K -> {RQ, Null}] : K \in SUBSET RequestKeys }

EmptyMap == [k \in {} |-> RQ]

NonePlan ==
    [isNone |-> TRUE, keys |-> {}, Detailed_Outline |-> <<>>,
     revision_requests |-> EmptyMap]

\* plans that have both mappings
ShapedPlans ==
    { [isNone |-> FALSE, keys |-> PlanKeys,
       Detailed_Outline |-> OutlineOf(o),
       revision_requests |-> rr] : o \in Outlines, rr \in RequestMaps }

\* plans that lack Detailed_Outline, revision_requests or both
\* (the value of an absent key is never read)
TruncatedPlans ==
    { [isNone |-> FALSE, keys |-> K,
       Detailed_Outline |->
           IF "Detailed_Outline" \in K THEN o ELSE <<>>,
       revision_requests |->
           IF "revision_requests" \in K
           THEN [k \in {"Intro"} |-> RQ] ELSE EmptyMap] :
      K \in (SUBSET PlanKeys) \ {PlanKeys},
      o \in {<<>>, OutlineOf(<<<<TRUE, C0>>>>)} }

Plans == ShapedPlans \cup TruncatedPlans

Files ==
    { [status |-> "ok", data |-> p] : p \in Plans }
    \cup { [status |-> s, data |-> NonePlan] : s \in {"absent", "invalid"} }

\* ------------------------------------------------------------- contexts
NoContext ==
    [step_name |-> NoName, original_content |-> <<>>,
     revision_request |-> <<>>, claude_messages |-> 0,
     gemini_history |-> 0, current_iteration |-> 0]

NoContexts == [k \in {} |-> NoContext]

NoRequest == [backend |-> "none", history |-> <<>>, message |-> <<>>]

Pending == [plan |-> "pending", contexts |-> NoContexts]

NothingSaved == [files |-> {}, outline |-> <<>>, revision_requests |-> EmptyMap]

\* the list a context field points to
ClaudeMessages(c) == heap[c.claude_messages]
GeminiHistory(c) == heap[c.gemini_history]

\* ------------------------------------------------ _format_revision_history
\* an entry numbered by its position in the history, not by its exchange
FormatEntryByIndex(history, i) ==
    [label |-> IF history[i + 1].role = "model" THEN "Revision" ELSE "Instruction",
     n |-> i + 1,
     content |-> history[i + 1].content]

\* enumerate(history) with 0-based i; only model / assistant messages are kept
FormatEntry(history, i) ==
    [label |-> IF history[i + 1].role = "model" THEN "Revision" ELSE "Instruction",
     n |-> (i \div 2) + 1,
     content |-> history[i + 1].content]

RECURSIVE FormatFrom(_, _)
FormatFrom(history, i) ==
    IF i >= Len(history) THEN <<>>
    ELSE IF history[i + 1].role \in {"model", "assistant"}
         THEN <<FormatEntry(history, i)>> \o FormatFrom(history, i + 1)
         ELSE FormatFrom(history, i + 1)

NoPreviousRevisions == <<[label |-> "No previous revisions", n |-> 0, content |-> <<>>]>>

_format_revision_history(history) ==
    IF history = <<>> THEN NoPreviousRevisions ELSE FormatFrom(history, 0)

\* -------------------------------------------------------------- prompts
\* lines 221-237
ClaudePrompt(c) ==
    [kind |-> "instruct",
     step_name |-> c.step_name,
     original_content |-> c.original_content,
     revision_request |-> c.revision_request,
     revised_content |-> <<>>,
     history |-> _format_revision_history(GeminiHistory(c))]

\* the review asked about the first revision instead of the latest
ReviewPromptStale(c, revised, hist) ==
    [kind |-> "review",
     step_name |-> NoName,
     original_content |-> <<>>,
     revision_request |-> c.revision_request,
     revised_content |-> hist[2].content,
     history |-> _format_revision_history(hist)]

\* lines 257-274, built after the reviser's reply was appended
ReviewPrompt(c, revised, hist) ==
    [kind |-> "review",
     step_name |-> NoName,
     original_content |-> <<>>,
     revision_request |-> c.revision_request,
     revised_content |-> revised,
     history |-> _format_revision_history(hist)]

Msg(role, content) == [role |-> role, content |-> content]

\* lines 168-173: the history in the reviser backend's own format
GeminiFormat(history) ==
    [i \in 1..Len(history) |->
        [role |-> IF history[i].role = "user" THEN "user" ELSE "model",
         parts |-> <<history[i].content>>]]

\* ------------------------------------------------------------- pipeline
\* a draft and the empty text compile_final_plan puts for a missing draft
D0 == <<"d", "0">>
NoDraft == <<>>

\* criteria text
EC == <<"e", "c">>

\* the keys of the JSON object the planner is asked for
GeminiKeys == {"Detailed_Outline", "Evaluation_Criteria"}

\* the steps of a planner reply: the i-th is named StepNames[i]
StepItems == { [i \in 1..n |-> [name |-> StepNames[i], content |-> C0]] : n \in 0..MaxSteps }

CriteriaMaps == { [k \in K |-> EC] : K \in SUBSET RequestKeys }

\* the plan of the pipeline: a dict, by the keys it holds
EmptyPlan ==
    [keys |-> {}, Detailed_Outline |-> <<>>, Evaluation_Criteria |-> EmptyMap,
     revision_requests |-> EmptyMap]

\* what json.loads gives for the planner's reply: any outline and any
\* criteria mapping; a key may be absent
GeminiPlans ==
    { [keys |-> K,
       Detailed_Outline |-> IF "Detailed_Outline" \in K THEN o ELSE <<>>,
       Evaluation_Criteria |-> IF "Evaluation_Criteria" \in K THEN e ELSE EmptyMap,
       revision_requests |-> EmptyMap] :
      K \in SUBSET GeminiKeys, o \in StepItems, e \in CriteriaMaps }

\* the ProjectPlan object before compile_final_plan has built it
NoFinalPlan ==
    [Detailed_Outline |-> <<>>, Evaluation_Criteria |-> EmptyMap,
     revision_requests |-> EmptyMap]

NotRun ==
    [pc |-> "idle", plan |-> EmptyPlan, i |-> 0, drafts |-> EmptyMap,
     revision_requests |-> EmptyMap, final_plan |-> NoFinalPlan,
     files |-> {}]

\* ----------------------------------------------------------------- Init
Init ==
    /\ file \in Files
    /\ pc = "load"
    /\ plan = NonePlan
    /\ idx = 0
    /\ revision_contexts = NoContexts
    /\ completed_steps = 0
    /\ context = NoContext
    /\ heap = <<>>
    /\ gemini_prompt = None
    /\ revised_content = None
    /\ step_result = "none"
    /\ result = Pending
    /\ saved = NothingSaved
    /\ request = NoRequest
    /\ calls = <<>>
    /\ pipeline = NotRun

\* ------------------------------------------------------------- gateways
\* what a provider does with one request: a reply text, or an error
Outcomes(replies) ==
    { [kind |-> "ok", text |-> r] : r \in replies }
    \cup { [kind |-> e, text |-> None] : e \in ErrorKinds }

CallEntry(c, kind, out) ==
    [step |-> c.step_name, round |-> c.current_iteration,
     kind |-> kind, outcome |-> out.kind]

\* the try / except of lines 133 and 152 left out: the error goes to the caller
get_claude_response_raises(c, new_prompt, out) ==
    LET sent == Append(ClaudeMessages(c), Msg("user", new_prompt))
    IN [heap |-> [heap EXCEPT ![c.claude_messages] =
                    IF out.kind = "ok"
                    THEN Append(sent, Msg("assistant", out.text))
                    ELSE sent],
        request |-> [backend |-> "claude", history |-> sent, message |-> <<>>],
        ret |-> IF out.kind = "ok" THEN out.text ELSE None,
        raised |-> out.kind # "ok"]

\* the reply handed back without being stored in the history
get_claude_response_drops_reply(c, new_prompt, out) ==
    LET sent == Append(ClaudeMessages(c), Msg("user", new_prompt))
    IN [heap |-> [heap EXCEPT ![c.claude_messages] = sent],
        request |-> [backend |-> "claude", history |-> sent, message |-> <<>>],
        ret |-> IF out.kind = "ok" THEN out.text ELSE None,
        raised |-> FALSE]

\* lines 127-155.  The prompt is appended before the provider is called;
\* the reply is appended only when the call returned a text.  Every
\* exception is caught at line 152 and None returned: nothing is raised.
get_claude_response(c, new_prompt, out) ==
    LET sent == Append(ClaudeMessages(c), Msg("user", new_prompt))
    IN [heap |-> [heap EXCEPT ![c.claude_messages] =
                    IF out.kind = "ok"
                    THEN Append(sent, Msg("assistant", out.text))
                    ELSE sent],
        request |-> [backend |-> "claude", history |-> sent, message |-> <<>>],
        ret |-> IF out.kind = "ok" THEN out.text ELSE None,
        raised |-> FALSE]

\* the request stored before the provider is called, as the instructor's is
get_gemini_response_stores_first(c, new_prompt, out) ==
    [heap |-> [heap EXCEPT ![c.gemini_history] =
                    IF out.kind = "ok"
                    THEN @ \o <<Msg("user", new_prompt), Msg("model", out.text)>>
                    ELSE Append(@, Msg("user", new_prompt))],
     request |-> [backend |-> "gemini",
                  history |-> GeminiFormat(GeminiHistory(c)),
                  message |-> new_prompt],
     ret |-> IF out.kind = "ok" THEN out.text ELSE None,
     raised |-> FALSE]

\* the chat started without the history of the earlier rounds
get_gemini_response_fresh(c, new_prompt, out) ==
    [heap |-> [heap EXCEPT ![c.gemini_history] =
                    IF out.kind = "ok"
                    THEN @ \o <<Msg("user", new_prompt), Msg("model", out.text)>>
                    ELSE @],
     request |-> [backend |-> "gemini",
                  history |-> <<>>,
                  message |-> new_prompt],
     ret |-> IF out.kind = "ok" THEN out.text ELSE None,
     raised |-> FALSE]

\* lines 157-194.  Both messages are appended after the reply was read.
\* Every exception is caught at line 191 and None returned.
get_gemini_response(c, new_prompt, out) ==
    [heap |-> [heap EXCEPT ![c.gemini_history] =
                    IF out.kind = "ok"
                    THEN @ \o <<Msg("user", new_prompt), Msg("model", out.text)>>
                    ELSE @],
     request |-> [backend |-> "gemini",
                  history |-> GeminiFormat(GeminiHistory(c)),
                  message |-> new_prompt],
     ret |-> IF out.kind = "ok" THEN out.text ELSE None,
     raised |-> FALSE]

\* ------------------------------------------------------------------ main
Outline == plan.Detailed_Outline
Requests == plan.revision_requests

\* a key of revision_requests that names no step raises as well
CountRaisesOnUnknownKey(p) ==
    \/ "Detailed_Outline" \notin p.keys
    \/ /\ p.Detailed_Outline # <<>>
       /\ \/ "revision_requests" \notin p.keys
          \/ \E i \in DOMAIN p.Detailed_Outline :
                p.Detailed_Outline[i].name = NoName
    \/ \E n \in DOMAIN p.revision_requests :
          \A i \in DOMAIN p.Detailed_Outline : p.Detailed_Outline[i].name # n

\* lines 304-305 and 385-386: the comprehension raises KeyError
CountRaises(p) ==
    \/ "Detailed_Outline" \notin p.keys
    \/ /\ p.Detailed_Outline # <<>>
       /\ \/ "revision_requests" \notin p.keys
          \/ \E i \in DOMAIN p.Detailed_Outline :
                p.Detailed_Outline[i].name = NoName

\* lines 378-380 with load_revised_plan, lines 109-124
Load ==
    /\ pc = "load"
    /\ plan' = IF file.status = "ok" THEN file.data ELSE NonePlan
    /\ pc' = IF file.status = "ok" THEN "count" ELSE "done"
    /\ UNCHANGED <<pipeline, file, idx, revision_contexts, completed_steps, context,
                   heap, gemini_prompt, revised_content, step_result,
                   result, saved, request, calls>>

\* lines 385-389: an exception here is outside the try of line 390
Count ==
    /\ pc = "count"
    /\ pc' = IF CountRaises(plan) THEN "crashed" ELSE "drv_init"
    /\ UNCHANGED <<pipeline, file, plan, idx, revision_contexts, completed_steps,
                   context, heap, gemini_prompt, revised_content,
                   step_result, result, saved, request, calls>>

\* ------------------------------------------------- further_revise_plan
\* the contexts recorded so far handed back by the outer handler too
FailedWithContexts == [plan |-> "None", contexts |-> revision_contexts]

\* the value of `return None, {}` (line 338)
Failed == [plan |-> "None", contexts |-> NoContexts]

\* lines 301-307
DriverInit ==
    /\ pc = "drv_init"
    /\ revision_contexts' = NoContexts
    /\ completed_steps' = 0
    /\ idx' = 0
    /\ IF CountRaises(plan)
       THEN result' = Failed /\ pc' = "ret"
       ELSE result' = result /\ pc' = "drv_loop"
    /\ UNCHANGED <<pipeline, file, plan, context, heap, gemini_prompt,
                   revised_content, step_result, saved, request, calls>>

\* the loop goes round without moving to the next step
NextIndexStuck(i) == i

\* line 309: the for loop moves to the next step of the outline
NextIndex(i) == i + 1

\* lines 309-311: a step whose name is not a key of revision_requests
DriverSkip ==
    /\ pc = "drv_loop"
    /\ idx < Len(Outline)
    /\ Outline[idx + 1].name \notin DOMAIN Requests
    /\ idx' = NextIndex(idx)
    /\ UNCHANGED <<pipeline, file, pc, plan, revision_contexts, completed_steps,
                   context, heap, gemini_prompt, revised_content,
                   step_result, result, saved, request, calls>>

\* the lists of the first context reused (a shared default list)
NewContextShared(step, revision_request) ==
    [step_name |-> step.name,
     original_content |-> step.content,
     revision_request |-> revision_request,
     claude_messages |-> 1,
     gemini_history |-> 2,
     current_iteration |-> 1]

\* the counter started at 0
NewContextFromZero(step, revision_request) ==
    [step_name |-> step.name,
     original_content |-> step.content,
     revision_request |-> revision_request,
     claude_messages |-> Len(heap) + 1,
     gemini_history |-> Len(heap) + 2,
     current_iteration |-> 0]

\* lines 208-215: the context of a fresh invocation, with two new lists
NewContext(step, revision_request) ==
    [step_name |-> step.name,
     original_content |-> step.content,
     revision_request |-> revision_request,
     claude_messages |-> Len(heap) + 1,
     gemini_history |-> Len(heap) + 2,
     current_iteration |-> 1]

\* off by one: one round too many
LoopContinuesOffByOne(c) == c.current_iteration <= MAX_ITERATIONS + 1

\* line 217: the condition of the while loop
LoopContinues(c) == c.current_iteration <= MAX_ITERATIONS

\* exhaustion reported as a failure
ExhaustedReturnNone == "None"

\* line 291: the first component returned when the loop ends
ExhaustedReturn == "plan"

\* lines 309-320 and 208-217: a step with a pending request; the protocol
\* is entered and reaches its first call, or an exception ends the batch
DriverSelect ==
    /\ pc = "drv_loop"
    /\ idx < Len(Outline)
    /\ Outline[idx + 1].name \in DOMAIN Requests
    /\ idx' = NextIndex(idx)
    /\ LET step == Outline[idx + 1]
           revision_request == Requests[step.name]
       IN IF revision_request = Null
          THEN \* line 314: None[:100] raises TypeError, caught at line 335
               /\ result' = Failed
               /\ pc' = "ret"
               /\ UNCHANGED <<context, heap, step_result>>
          ELSE IF step.content = Missing
          THEN \* line 210: KeyError, caught at line 321
               /\ result' = [plan |-> "None", contexts |-> revision_contexts]
               /\ pc' = "ret"
               /\ UNCHANGED <<context, heap, step_result>>
          ELSE /\ context' = NewContext(step, revision_request)
               /\ heap' = heap \o <<<<>>, <<>>>>
               /\ result' = result
               /\ IF LoopContinues(NewContext(step, revision_request))
                  THEN pc' = "instruct" /\ step_result' = "none"
                  ELSE pc' = "after" /\ step_result' = ExhaustedReturn
    /\ UNCHANGED <<pipeline, file, plan, revision_contexts, completed_steps,
                   gemini_prompt, revised_content, saved, request, calls>>

\* line 334
DriverReturn ==
    /\ pc = "drv_loop"
    /\ idx = Len(Outline)
    /\ result' = [plan |-> "plan", contexts |-> revision_contexts]
    /\ pc' = "ret"
    /\ UNCHANGED <<pipeline, file, plan, idx, revision_contexts, completed_steps,
                   context, heap, gemini_prompt, revised_content,
                   step_result, saved, request, calls>>

\* skip-and-continue: the failed step is left and the loop goes on
DriverAbortContinue ==
    /\ pc = "after"
    /\ step_result = "None"
    /\ pc' = "drv_loop"
    /\ UNCHANGED <<pipeline, file, plan, idx, revision_contexts, completed_steps,
                   context, heap, gemini_prompt, revised_content,
                   step_result, result, saved, request, calls>>

\* the batch rolled back to the loaded plan on failure
DriverAbortRollback ==
    /\ pc = "after"
    /\ step_result = "None"
    /\ plan' = file.data
    /\ result' = [plan |-> "None", contexts |-> revision_contexts]
    /\ pc' = "ret"
    /\ UNCHANGED <<pipeline, file, idx, revision_contexts, completed_steps,
                   context, heap, gemini_prompt, revised_content,
                   step_result, saved, request, calls>>

\* lines 326-328: the protocol returned None as plan
DriverAbort ==
    /\ pc = "after"
    /\ step_result = "None"
    /\ result' = [plan |-> "None", contexts |-> revision_contexts]
    /\ pc' = "ret"
    /\ UNCHANGED <<pipeline, file, plan, idx, revision_contexts, completed_steps,
                   context, heap, gemini_prompt, revised_content,
                   step_result, saved, request, calls>>

\* the request of a revised step removed from the mapping after use
DriverRecordClears ==
    /\ pc = "after"
    /\ step_result = "plan"
    /\ revision_contexts' =
         [n \in DOMAIN revision_contexts \cup {context.step_name} |->
            IF n = context.step_name THEN context ELSE revision_contexts[n]]
    /\ completed_steps' = completed_steps + 1
    /\ plan' = [plan EXCEPT !.revision_requests =
                    [n \in DOMAIN @ \ {context.step_name} |-> @[n]]]
    /\ pc' = "drv_loop"
    /\ UNCHANGED <<pipeline, file, idx, context, heap, gemini_prompt,
                   revised_content, step_result, result, saved, request,
                   calls>>

\* lines 330-332: the protocol returned the plan
DriverRecord ==
    /\ pc = "after"
    /\ step_result = "plan"
    /\ revision_contexts' =
         [n \in DOMAIN revision_contexts \cup {context.step_name} |->
            IF n = context.step_name THEN context ELSE revision_contexts[n]]
    /\ completed_steps' = completed_steps + 1
    /\ pc' = "drv_loop"
    /\ UNCHANGED <<pipeline, file, plan, idx, context, heap, gemini_prompt,
                   revised_content, step_result, result, saved, request,
                   calls>>

\* ----------------------------------------------- revise_step_with_llms
\* the revision written into the first step of the outline
SetContentFirstStep(p, i, text) ==
    [p EXCEPT !.Detailed_Outline[1].content = text]

\* the assignment of line 284 lost
SetContentLost(p, i, text) == p

\* line 284: step["content"] = revised_content, on the step of the plan
SetContent(p, i, text) ==
    [p EXCEPT !.Detailed_Outline[i].content = text]

\* the revision written whatever the verdict
ContentAlwaysWritten(p, i, verdict, revised) == SetContent(p, i, revised)

\* lines 283-284: the step is written only when the verdict is an acceptance
ContentAfterVerdict(p, i, verdict, revised) ==
    IF IsAccepted(verdict) THEN SetContent(p, i, revised) ELSE p

\* lines 321-324: an exception that leaves revise_step_with_llms is caught
\* by the Driver, which returns None and the contexts recorded so far
Propagate ==
    /\ pc' = "ret"
    /\ step_result' = "raised"
    /\ result' = [plan |-> "None", contexts |-> revision_contexts]

\* lines 217-241: 1. the instructor writes the instructions for the reviser
Instruct ==
    /\ pc = "instruct"
    /\ \E out \in Outcomes(InstructReplies) :
         LET g == get_claude_response(context, ClaudePrompt(context), out)
         IN /\ heap' = g.heap
            /\ request' = g.request
            /\ calls' = Append(calls, CallEntry(context, "instruct", out))
            /\ IF g.raised
               THEN Propagate /\ UNCHANGED gemini_prompt
               ELSE /\ gemini_prompt' = g.ret
                    /\ result' = result
                    /\ IF Falsy(g.ret)
                       THEN pc' = "after" /\ step_result' = "None"
                       ELSE pc' = "revise" /\ step_result' = step_result
    /\ UNCHANGED <<pipeline, file, plan, idx, revision_contexts, completed_steps,
                   context, revised_content, saved>>

\* lines 246-251: 2. the reviser performs the revision
Revise ==
    /\ pc = "revise"
    /\ \E out \in Outcomes(ReviserReplies) :
         LET g == get_gemini_response(context, gemini_prompt, out)
         IN /\ heap' = g.heap
            /\ request' = g.request
            /\ calls' = Append(calls, CallEntry(context, "revise", out))
            /\ IF g.raised
               THEN Propagate /\ UNCHANGED revised_content
               ELSE /\ revised_content' = g.ret
                    /\ result' = result
                    /\ IF Falsy(g.ret)
                       THEN pc' = "after" /\ step_result' = "None"
                       ELSE pc' = "review" /\ step_result' = step_result
    /\ UNCHANGED <<pipeline, file, plan, idx, revision_contexts, completed_steps,
                   context, gemini_prompt, saved>>

\* lines 256-291: 3. the instructor reviews the revision; the verdict is
\* decided, the counter incremented and the loop condition tested
Review ==
    /\ pc = "review"
    /\ \E out \in Outcomes(ReviewReplies) :
         LET prompt == ReviewPrompt(context, revised_content, GeminiHistory(context))
             g == get_claude_response(context, prompt, out)
             verdict == g.ret
         IN /\ heap' = g.heap
            /\ request' = g.request
            /\ calls' = Append(calls, CallEntry(context, "review", out))
            /\ IF g.raised
               THEN Propagate /\ UNCHANGED <<plan, context>>
               ELSE IF Falsy(verdict)
               THEN /\ pc' = "after"
                    /\ step_result' = "None"
                    /\ UNCHANGED <<plan, context, result>>
               ELSE /\ plan' = ContentAfterVerdict(plan, idx, verdict, revised_content)
                    /\ result' = result
                    /\ IF IsAccepted(verdict)
                       THEN /\ pc' = "after"
                            /\ step_result' = "plan"
                            /\ UNCHANGED context
                       ELSE /\ context' = [context EXCEPT !.current_iteration = @ + 1]
                            /\ IF LoopContinues(context')
                               THEN pc' = "instruct" /\ step_result' = step_result
                               ELSE pc' = "after" /\ step_result' = ExhaustedReturn
    /\ UNCHANGED <<pipeline, file, idx, revision_contexts, completed_steps,
                   gemini_prompt, revised_content, saved>>

\* ------------------------------------------------------- main, continued
\* lines 398-400 with save_revised_plan, lines 351-369
Save ==
    /\ pc = "ret"
    /\ result.plan = "plan"
    /\ saved' = [files |-> {"RevisedPlan.json", "prefix.json", "prefix-RevisedPlan.md"},
                 outline |-> plan.Detailed_Outline,
                 revision_requests |-> plan.revision_requests]
    /\ pc' = "done"
    /\ UNCHANGED <<pipeline, file, plan, idx, revision_contexts, completed_steps,
                   context, heap, gemini_prompt, revised_content,
                   step_result, result, request, calls>>

\* the failure branch writing out the plan as it stands
ReportFailureSaves ==
    /\ pc = "ret"
    /\ result.plan = "None"
    /\ saved' = [files |-> {"RevisedPlan.json", "prefix.json", "prefix-RevisedPlan.md"},
                 outline |-> plan.Detailed_Outline,
                 revision_requests |-> plan.revision_requests]
    /\ pc' = "done"
    /\ UNCHANGED <<pipeline, file, plan, idx, revision_contexts, completed_steps,
                   context, heap, gemini_prompt, revised_content,
                   step_result, result, request, calls>>

\* lines 401-402
ReportFailure ==
    /\ pc = "ret"
    /\ result.plan = "None"
    /\ pc' = "done"
    /\ UNCHANGED <<pipeline, file, plan, idx, revision_contexts, completed_steps,
                   context, heap, gemini_prompt, revised_content,
                   step_result, result, saved, request, calls>>

Next ==
    \/ Load
    \/ Count
    \/ DriverInit
    \/ DriverSkip
    \/ DriverSelect
    \/ DriverReturn
    \/ DriverAbort
    \/ DriverRecord
    \/ Instruct
    \/ Revise
    \/ Review
    \/ Save
    \/ ReportFailure

Spec == Init /\ [][Next]_vars

\* the program runs to its end: it is one sequential thread and every step
\* of it is a call that returns
FairSpec == Spec /\ WF_vars(Next)

\* ============================================================= pipeline
\* the variables of the revision program, which the pipeline never touches
revision_vars ==
    <<file, pc, plan, idx, revision_contexts, completed_steps, context,
      heap, gemini_prompt, revised_content, step_result, result, saved,
      request, calls>>

\* the pipeline is started instead of the revision program
PipelineInit ==
    /\ file = [status |-> "absent", data |-> NonePlan]
    /\ pc = "load"
    /\ plan = NonePlan
    /\ idx = 0
    /\ revision_contexts = NoContexts
    /\ completed_steps = 0
    /\ context = NoContext
    /\ heap = <<>>
    /\ gemini_prompt = None
    /\ revised_content = None
    /\ step_result = "none"
    /\ result = Pending
    /\ saved = NothingSaved
    /\ request = NoRequest
    /\ calls = <<>>
    /\ pipeline = [NotRun EXCEPT !.pc = "generate_plan"]

\* dict assignment d[k] = v
Put(d, k, v) == [x \in DOMAIN d \cup {k} |-> IF x = k THEN v ELSE d[x]]

\* dict.get(k, default)
Get(d, k, default) == IF k \in DOMAIN d THEN d[k] ELSE default

\* generate_plan, lines 111-203, with lines 398-401 of the main block: a
\* reply that is no JSON, a provider error, or a reply without
\* Evaluation_Criteria (KeyError at line 186, caught at line 200) gives
\* None, which the main block replaces by {}
generate_plan ==
    /\ pipeline.pc = "generate_plan"
    /\ \E failed \in BOOLEAN : \E reply \in GeminiPlans :
          pipeline' =
              [pipeline EXCEPT
                 !.plan = IF failed \/ "Evaluation_Criteria" \notin reply.keys
                          THEN EmptyPlan ELSE reply,
                 !.pc = "develop_drafts"]
    /\ UNCHANGED revision_vars

\* the test of line 218
CanDraft(p) == "Detailed_Outline" \in p.keys /\ "Evaluation_Criteria" \in p.keys

\* develop_drafts, lines 219-251: one turn of the loop; a failed call
\* leaves no draft for the step
DraftStep ==
    /\ pipeline.pc = "develop_drafts"
    /\ CanDraft(pipeline.plan)
    /\ pipeline.i < Len(pipeline.plan.Detailed_Outline)
    /\ \E ok \in BOOLEAN :
          LET step == pipeline.plan.Detailed_Outline[pipeline.i + 1].name
          IN pipeline' =
                [pipeline EXCEPT
                   !.drafts = IF ok THEN Put(@, step, D0) ELSE @,
                   !.i = @ + 1]
    /\ UNCHANGED revision_vars

\* develop_drafts, lines 218 and 252-255: the loop is over, or was not entered
DraftsReturn ==
    /\ pipeline.pc = "develop_drafts"
    /\ \/ ~CanDraft(pipeline.plan)
       \/ pipeline.i = Len(pipeline.plan.Detailed_Outline)
    /\ pipeline' = [pipeline EXCEPT !.pc = "generate_revision_requests", !.i = 0]
    /\ UNCHANGED revision_vars

\* drafts.items(): the keys in the order they were inserted
RECURSIVE DraftKeysFrom(_, _, _)
DraftKeysFrom(outline, drafts, n) ==
    IF n > Len(outline) THEN <<>>
    ELSE IF outline[n].name \in DOMAIN drafts
         THEN <<outline[n].name>> \o DraftKeysFrom(outline, drafts, n + 1)
         ELSE DraftKeysFrom(outline, drafts, n + 1)

DraftKeys == DraftKeysFrom(pipeline.plan.Detailed_Outline, pipeline.drafts, 1)

\* the test of line 260
NothingToProcess == pipeline.drafts = EmptyMap \/ pipeline.plan.keys = {}

\* generate_revision_requests, lines 269-301: one turn of the loop; a
\* failed call leaves no request for the step
RequestStep ==
    /\ pipeline.pc = "generate_revision_requests"
    /\ ~NothingToProcess
    /\ pipeline.i < Len(DraftKeys)
    /\ \E ok \in BOOLEAN :
          pipeline' =
              [pipeline EXCEPT
                 !.revision_requests =
                     IF ok THEN Put(@, DraftKeys[pipeline.i + 1], RQ) ELSE @,
                 !.i = @ + 1]
    /\ UNCHANGED revision_vars

\* generate_revision_requests, lines 260-263 and 303, with line 410 of the
\* main block: plan["revision_requests"] = revision_requests
RequestsReturn ==
    /\ pipeline.pc = "generate_revision_requests"
    /\ NothingToProcess \/ pipeline.i = Len(DraftKeys)
    /\ pipeline' =
          [pipeline EXCEPT
             !.plan.keys = @ \cup {"revision_requests"},
             !.plan.revision_requests = pipeline.revision_requests,
             !.pc = "compile_final_plan"]
    /\ UNCHANGED revision_vars

\* compile_final_plan, lines 306-333
compile_final_plan ==
    /\ pipeline.pc = "compile_final_plan"
    /\ pipeline' =
          [pipeline EXCEPT
             !.final_plan =
                 [Detailed_Outline |->
                      [n \in DOMAIN pipeline.plan.Detailed_Outline |->
                          [name |-> pipeline.plan.Detailed_Outline[n].name,
                           content |-> Get(pipeline.drafts,
                                           pipeline.plan.Detailed_Outline[n].name,
                                           NoDraft)]],
                  Evaluation_Criteria |-> pipeline.plan.Evaluation_Criteria,
                  revision_requests |-> pipeline.plan.revision_requests],
             !.pc = "save_plan_outputs"]
    /\ UNCHANGED revision_vars

\* save_plan_outputs, lines 365-393
save_plan_outputs ==
    /\ pipeline.pc = "save_plan_outputs"
    /\ pipeline' =
          [pipeline EXCEPT
             !.files = {"project_plan.json", "project_plan_datetime.json",
                        "InitialPlan.md"},
             !.pc = "done"]
    /\ UNCHANGED revision_vars

PipelineNext ==
    \/ generate_plan
    \/ DraftStep
    \/ DraftsReturn
    \/ RequestStep
    \/ RequestsReturn
    \/ compile_final_plan
    \/ save_plan_outputs

PipelineSpec == PipelineInit /\ [][PipelineNext]_vars

\* ================================================================ claims
\* ---------------------------------------------------- common vocabulary
Kinds == {"instruct", "revise", "review"}

InProtocol == pc \in Kinds

\* the provider requests of one kind issued for the step of that name
CallsOf(name, kind) ==
    { i \in DOMAIN calls : calls[i].step = name /\ calls[i].kind = kind }

\* the content of the steps in project_plan.json, before any revision
OriginalContent(i) == file.data.Detailed_Outline[i].content

\* index of the step a context belongs to (names are unique in an outline)
StepOf(c) == CHOOSE i \in DOMAIN Outline : Outline[i].name = c.step_name

\* the review replies of a context: every fourth instructor message
ReviewRepliesOf(c) ==
    { i \in DOMAIN ClaudeMessages(c) :
        i % 4 = 0 /\ ClaudeMessages(c)[i].role = "assistant" }

\* the reviewer accepted in the last round of c
Accepted(c) ==
    /\ Len(ClaudeMessages(c)) = 4 * c.current_iteration
    /\ ClaudeMessages(c)[Len(ClaudeMessages(c))].role = "assistant"
    /\ IsAccepted(ClaudeMessages(c)[Len(ClaudeMessages(c))].content)

\* the loop of c ended because the counter passed the cap
Exhausted(c) == c.current_iteration > MAX_ITERATIONS

\* the reviser's output of round k
RevisionOfRound(c, k) == GeminiHistory(c)[2 * k].content

\* the contexts of the invocations that have returned
Returned ==
    { revision_contexts[n] : n \in DOMAIN revision_contexts }
    \cup (IF pc = "after" THEN {context} ELSE {})

\* --------------------------------------------------------------------- C1
C1_Bounded ==
    /\ \A i \in DOMAIN calls : calls[i].round \in 1..MAX_ITERATIONS
    /\ \A n \in RequestKeys : \A k \in Kinds :
          Cardinality(CallsOf(n, k)) <= MAX_ITERATIONS
    /\ ( /\ pc = "after"
         /\ step_result = "plan"
         /\ \A i \in ReviewRepliesOf(context) :
               ~IsAccepted(ClaudeMessages(context)[i].content) )
       => \A k \in Kinds :
             Cardinality(CallsOf(context.step_name, k)) = MAX_ITERATIONS

\* C1: whatever the reviewer replies, one invocation of revise_step_with_llms
\* issues at most MAX_ITERATIONS rounds of (instruct, revise, review) and
\* then returns; when every review is a rejection and no call fails it
\* issues exactly MAX_ITERATIONS rounds.
C1_Terminates ==
    /\ []C1_Bounded
    /\ [](InProtocol => <>(pc = "after"))

C1_Witness ==
    /\ pc = "after"
    /\ step_result = "plan"
    /\ context.current_iteration = MAX_ITERATIONS + 1
    /\ Cardinality(CallsOf(context.step_name, "review")) = MAX_ITERATIONS
    /\ \A i \in DOMAIN calls : calls[i].outcome = "ok"

\* --------------------------------------------------------------------- C2
\* C2: when the reviewer accepts in round k, at the return of
\* revise_step_with_llms the step's content is the reviser's output of
\* round k, the value returned is the plan, and no call of a round after k
\* is ever issued for that step.
C2_AcceptedRoundWritten ==
    \A c \in Returned :
        Accepted(c) =>
            /\ Outline[StepOf(c)].content = RevisionOfRound(c, c.current_iteration)
            /\ (pc = "after" /\ c = context) => step_result = "plan"
            /\ \A i \in DOMAIN calls :
                  calls[i].step = c.step_name => calls[i].round <= c.current_iteration

C2_Witness ==
    /\ pc = "done"
    /\ \E n \in DOMAIN revision_contexts :
          LET c == revision_contexts[n]
          IN /\ Accepted(c)
             /\ c.current_iteration = 2
             /\ RevisionOfRound(c, 1) # RevisionOfRound(c, 2)
             /\ Outline[StepOf(c)].content = RevisionOfRound(c, 2)

\* --------------------------------------------------------------------- C3
\* C3: when every round is rejected until the cap is passed and no call
\* fails, the step's content at the return of revise_step_with_llms is its
\* content before the invocation.
C3_ExhaustedUnchanged ==
    (pc = "after" /\ step_result = "plan" /\ Exhausted(context))
    => /\ Outline[idx].content = context.original_content
       /\ Outline[idx].content = OriginalContent(idx)

C3_Witness ==
    /\ pc = "after"
    /\ step_result = "plan"
    /\ Exhausted(context)
    /\ Len(GeminiHistory(context)) = 2 * MAX_ITERATIONS
    /\ Outline[idx].content = C0

\* --------------------------------------------------------------------- C4
\* the Driver has returned the plan
DriverSucceeded == pc \in {"ret", "done"} /\ result.plan = "plan"

\* the steps of the outline that have no pending revision request
Unselected == { i \in DOMAIN Outline : Outline[i].name \notin DOMAIN Requests }

\* the steps whose invocation ended by exhaustion
ExhaustedSteps ==
    { i \in DOMAIN Outline :
        /\ Outline[i].name \in DOMAIN revision_contexts
        /\ Exhausted(revision_contexts[Outline[i].name]) }

\* C4 as stated: after the Driver finishes, a step without request is
\* unchanged and a step whose rounds were all rejected up to the cap holds
\* the reviser output of the last executed round.
C4_ExhaustedHoldsLastRevision ==
    DriverSucceeded =>
        /\ \A i \in Unselected : Outline[i].content = OriginalContent(i)
        /\ \A i \in ExhaustedSteps :
              Outline[i].content =
                  RevisionOfRound(revision_contexts[Outline[i].name], MAX_ITERATIONS)

\* C4 amended: after the Driver finishes, a step without request is
\* unchanged and a step whose rounds were all rejected up to the cap still
\* holds its original content, which is none of the reviser's outputs.
C4_ExhaustedHoldsOriginal ==
    DriverSucceeded =>
        /\ \A i \in Unselected : Outline[i].content = OriginalContent(i)
        /\ \A i \in ExhaustedSteps :
              /\ Outline[i].content = OriginalContent(i)
              /\ \A k \in 1..MAX_ITERATIONS :
                    Outline[i].content #
                        RevisionOfRound(revision_contexts[Outline[i].name], k)

C4_Witness ==
    /\ pc = "done"
    /\ result.plan = "plan"
    /\ Len(Outline) = 2
    /\ Unselected = {1}
    /\ ExhaustedSteps = {2}
    /\ saved.outline = Outline

\* --------------------------------------------------------------------- C5
\* C5: a step whose name is not a key of revision_requests keeps its
\* content, no context is created for it and no model call is issued for it,
\* whatever the backends do.
C5_UnselectedUntouched ==
    /\ \A i \in Unselected :
          /\ Outline[i].content = OriginalContent(i)
          /\ \A k \in Kinds : CallsOf(Outline[i].name, k) = {}
          /\ Outline[i].name \notin DOMAIN revision_contexts
          /\ context # NoContext => context.step_name # Outline[i].name
    /\ Len(heap) <= 2 * Cardinality((1..idx) \ Unselected)

C5_Witness ==
    /\ pc = "done"
    /\ result.plan = "plan"
    /\ Len(Outline) = 2
    /\ Unselected = {1}
    /\ Accepted(revision_contexts[Outline[2].name])
    /\ Outline[2].content # OriginalContent(2)
    /\ Len(heap) = 2

\* --------------------------------------------------------------------- C6
\* the steps the for loop has not reached
LaterSteps == (idx + 1)..Len(Outline)

C6_NothingAfterAbort ==
    step_result = "None" =>
        /\ pc \in {"after", "ret", "done"}
        /\ pc # "after" => result.plan = "None"
        /\ context.step_name = Outline[idx].name
        /\ Len(heap) = context.gemini_history
        /\ \A j \in LaterSteps :
              /\ \A k \in Kinds : CallsOf(Outline[j].name, k) = {}
              /\ Outline[j].name \notin DOMAIN revision_contexts

C6_AbortStep ==
    (pc = "after" /\ step_result = "None")
    => /\ pc' = "ret"
       /\ result'.plan = "None"
       /\ calls' = calls
       /\ heap' = heap
       /\ context' = context
       /\ idx' = idx

\* C6: when the invocation of a selected step returns None as plan,
\* further_revise_plan returns None as plan in its next step; no model call
\* is issued and no context created for a later step of the outline, pending
\* request or not.
C6_FailFast == []C6_NothingAfterAbort /\ [][C6_AbortStep]_vars

C6_Witness ==
    /\ pc = "done"
    /\ step_result = "None"
    /\ result.plan = "None"
    /\ idx < Len(Outline)
    /\ Outline[idx + 1].name \in DOMAIN Requests
    /\ Requests[Outline[idx + 1].name] = RQ
    /\ Outline[idx + 1].content = C0

\* --------------------------------------------------------------------- C7
\* the last provider request failed
LastCallFailed == calls # <<>> /\ calls[Len(calls)].outcome \in ErrorKinds

\* the steps whose invocation ended by an acceptance
AcceptedSteps ==
    { i \in DOMAIN Outline :
        /\ Outline[i].name \in DOMAIN revision_contexts
        /\ Accepted(revision_contexts[Outline[i].name]) }

\* C7: after a provider failure has aborted a step, every step accepted
\* earlier in the batch holds its accepted revision and every other step
\* holds its original content.
C7_NoRollback ==
    (step_result = "None" /\ LastCallFailed) =>
        /\ \A i \in AcceptedSteps :
              LET c == revision_contexts[Outline[i].name]
              IN Outline[i].content = RevisionOfRound(c, c.current_iteration)
        /\ \A i \in DOMAIN Outline \ AcceptedSteps :
              Outline[i].content = OriginalContent(i)

C7_Witness ==
    /\ pc = "done"
    /\ step_result = "None"
    /\ calls[Len(calls)].outcome = "rate_limit"
    /\ calls[Len(calls)].round = 1
    /\ AcceptedSteps = {1}
    /\ Outline[1].content = V2
    /\ idx = 2

\* --------------------------------------------------------------------- C8
\* C8: a failed instruct, revise or review call is the last request
\* issued: the invocation has returned None with the context of the failing
\* round, no later call of the round, no further round and no second
\* attempt of the call follows.
C8_FailedCallIsLast ==
    \A i \in DOMAIN calls :
        calls[i].outcome # "ok" =>
            /\ i = Len(calls)
            /\ step_result = "None"
            /\ pc \in {"after", "ret", "done"}
            /\ context.step_name = calls[i].step
            /\ context.current_iteration = calls[i].round

C8_Witness ==
    /\ pc = "done"
    /\ Len(calls) = 5
    /\ calls[5].outcome = "auth"
    /\ calls[5].kind = "revise"
    /\ calls[5].round = 2
    /\ step_result = "None"

\* --------------------------------------------------------------------- C9
\* every selected step has a context that ended accepted or exhausted
AllSelectedSettled ==
    \A i \in DOMAIN Outline \ Unselected :
        /\ Outline[i].name \in DOMAIN revision_contexts
        /\ \/ Accepted(revision_contexts[Outline[i].name])
           \/ Exhausted(revision_contexts[Outline[i].name])

C9_ExhaustedIsSuccess ==
    /\ (pc = "after" /\ Exhausted(context)) => step_result = "plan"
    /\ (result # Pending /\ AllSelectedSettled) => result.plan = "plan"

C9_ExhaustedStep ==
    (pc = "after" /\ Exhausted(context))
    => /\ pc' = "drv_loop"
       /\ result' = Pending
       /\ context.step_name \in DOMAIN revision_contexts'
       /\ revision_contexts'[context.step_name] = context

\* C9: an exhausted step is no batch failure: revise_step_with_llms returns
\* the plan, further_revise_plan records the context and goes on with the
\* loop, and when every selected step ended accepted or exhausted the Driver
\* returns the plan.
C9_ExhaustionContinues == []C9_ExhaustedIsSuccess /\ [][C9_ExhaustedStep]_vars

C9_Witness ==
    /\ pc = "done"
    /\ result.plan = "plan"
    /\ Len(Outline) = 2
    /\ ExhaustedSteps = {1}
    /\ DOMAIN revision_contexts = {Outline[1].name, Outline[2].name}
    /\ Len(calls) > 3 * MAX_ITERATIONS

\* -------------------------------------------------------------------- C10
IsPrefix(a, b) == Len(a) <= Len(b) /\ SubSeq(b, 1, Len(a)) = a

\* the contexts that exist: the returned ones and the one in use
Contexts == Returned \cup (IF context = NoContext THEN {} ELSE {context})

Addresses(c) == {c.claude_messages, c.gemini_history}

C10_Separate ==
    \A c \in Contexts :
        /\ c.claude_messages # c.gemini_history
        /\ Addresses(c) \subseteq DOMAIN heap
        /\ \A d \in Contexts :
              d.step_name # c.step_name => Addresses(c) \cap Addresses(d) = {}
        /\ \A i \in DOMAIN ClaudeMessages(c) :
              /\ ClaudeMessages(c)[i].role \in {"user", "assistant"}
              /\ ( /\ ClaudeMessages(c)[i].role = "user"
                   /\ ClaudeMessages(c)[i].content.kind = "instruct" )
                 => ClaudeMessages(c)[i].content.step_name = c.step_name
        /\ \A i \in DOMAIN GeminiHistory(c) :
              GeminiHistory(c)[i].role \in {"user", "model"}

C10_Grow ==
    /\ \A a \in DOMAIN heap : a \in DOMAIN heap' /\ IsPrefix(heap[a], heap'[a])
    /\ \A a \in DOMAIN heap' \ DOMAIN heap : heap'[a] = <<>>
    /\ context'.step_name # context.step_name
       => /\ Addresses(context') \cap DOMAIN heap = {}
          /\ ClaudeMessages(context)' = <<>>
          /\ GeminiHistory(context)' = <<>>

\* C10: the two histories of a context only grow by appending, a new
\* context starts with two new empty lists, and the contexts of two steps
\* share no list, so that no message of one step is in a history of another.
C10_AppendOnly == []C10_Separate /\ [][C10_Grow]_vars

C10_Witness ==
    /\ pc = "done"
    /\ Cardinality(DOMAIN revision_contexts) = 2
    /\ \A n \in DOMAIN revision_contexts :
          /\ Len(ClaudeMessages(revision_contexts[n])) >= 8
          /\ Len(GeminiHistory(revision_contexts[n])) >= 4
    /\ Len(heap) = 4

\* -------------------------------------------------------------------- C11
\* the provider errors, as outcomes of a request
Errors == { [kind |-> e, text |-> None] : e \in ErrorKinds }

\* whatever the provider error, both gateways hand None to their caller
C11_GatewaysReturnNone ==
    /\ step_result # "raised"
    /\ InProtocol =>
          \A out \in Errors :
             /\ get_claude_response(context, ClaudePrompt(context), out).ret = None
             /\ ~get_claude_response(context, ClaudePrompt(context), out).raised
             /\ get_gemini_response(context, I1, out).ret = None
             /\ ~get_gemini_response(context, I1, out).raised

\* a request that ended in a provider error makes the protocol return None
C11_ErrorStep ==
    (calls' # calls /\ calls'[Len(calls')].outcome \in ErrorKinds)
    => /\ pc' = "after"
       /\ step_result' = "None"
       /\ result' = Pending

\* C11: get_claude_response and get_gemini_response raise nothing: for
\* every provider error they return None, and revise_step_with_llms takes
\* that None as the failure of the call and returns None as plan.
C11_NeverRaises == []C11_GatewaysReturnNone /\ [][C11_ErrorStep]_vars

C11_Witness ==
    /\ pc = "after"
    /\ step_result = "None"
    /\ calls[Len(calls)].outcome = "malformed"
    /\ calls[Len(calls)].kind = "review"
    /\ result = Pending

\* -------------------------------------------------------------------- C12
\* the text has the letters y, e, s in a row, in either case
HasYes(text) ==
    \E i \in 1..(Len(text) - 2) :
        /\ text[i] \in {"Y", "y"}
        /\ text[i + 1] \in {"E", "e"}
        /\ text[i + 2] \in {"S", "s"}

\* the review reply that the step of the protocol has just received
NewReply == heap'[context.claude_messages][Len(heap'[context.claude_messages])]

\* a review reply with a text has arrived in this step
ReviewReplied ==
    /\ pc = "review"
    /\ calls' # calls
    /\ calls'[Len(calls')].outcome = "ok"
    /\ NewReply.content # <<>>

\* the step of the protocol ended the invocation with an acceptance
AcceptStep ==
    /\ pc' = "after"
    /\ step_result' = "plan"
    /\ context' = context
    /\ plan'.Detailed_Outline[idx].content = revised_content

\* the step of the protocol closed the round with a rejection
RejectStep ==
    /\ context' = [context EXCEPT !.current_iteration = @ + 1]
    /\ plan' = plan

C12_Classify ==
    ReviewReplied =>
        IF HasYes(NewReply.content) THEN AcceptStep ELSE RejectStep

\* C12 as stated: acceptance exactly when the reply has YES in it in
\* either case, and the reply "NO - not yet ready" is one of the accepted.
C12_NotYetReadyAccepted ==
    [][C12_Classify /\ ((ReviewReplied /\ NewReply.content = NotYetReady) => AcceptStep)]_vars

\* C12 amended: the verdict of a round is an acceptance exactly when the
\* review reply has YES in it, in either case, anywhere in the text, and a
\* rejection otherwise; "yesterday" is accepted, "NO - not yet ready", which
\* has no YES in it, is rejected.
C12_VerdictIsSubstringTest ==
    [][ /\ C12_Classify
        /\ (ReviewReplied /\ NewReply.content = Yesterday) => AcceptStep
        /\ (ReviewReplied /\ NewReply.content = NotYetReady) => RejectStep ]_vars

C12_Witness ==
    /\ pc = "after"
    /\ step_result = "plan"
    /\ context.current_iteration = 2
    /\ Len(ClaudeMessages(context)) = 8
    /\ ClaudeMessages(context)[8].content = Yesterday
    /\ ClaudeMessages(context)[4].content = NotYetReady
    /\ Outline[idx].content = revised_content

\* -------------------------------------------------------------------- C13
\* position in the outline of the step of that name
StepIndex(name) == CHOOSE i \in DOMAIN StepNames : StepNames[i] = name

C13_OneStepAtATime ==
    /\ \A i, j \in DOMAIN calls :
          i < j => StepIndex(calls[i].step) <= StepIndex(calls[j].step)
    /\ (InProtocol \/ pc = "after") =>
          /\ idx \in DOMAIN Outline
          /\ context.step_name = Outline[idx].name
    /\ Len(heap) <= 2 * idx

C13_Step ==
    /\ calls' # calls =>
          /\ InProtocol
          /\ calls'[Len(calls')].step = context.step_name
    /\ context'.step_name # context.step_name =>
          /\ pc = "drv_loop"
          /\ \/ context = NoContext
             \/ /\ context.step_name \in DOMAIN revision_contexts
                /\ revision_contexts[context.step_name] = context

\* C13: the selected steps are processed one after another in outline
\* order: the context of the next step is created only when the invocation
\* for the previous one has returned, every call belongs to the step the
\* loop is at, and the calls of two steps do not interleave.
C13_Sequential == []C13_OneStepAtATime /\ [][C13_Step]_vars

C13_Witness ==
    /\ pc = "done"
    /\ Len(calls) >= 6
    /\ calls[1].step = "Intro"
    /\ calls[3].step = "Intro"
    /\ calls[Len(calls)].step = "Body"
    /\ Len(heap) = 4

\* -------------------------------------------------------------------- C14
\* classes of provider errors: rate-limit, unavailable, timeout and
\* internal-error are transient; malformed input and auth failure permanent
Transient == {"rate_limit"}
Permanent == {"auth"}

\* two entries of the log are attempts of the same call of the protocol
SameCall(i, j) ==
    /\ calls[i].step = calls[j].step
    /\ calls[i].round = calls[j].round
    /\ calls[i].kind = calls[j].kind

\* C14: a transient provider error reaches the protocol as a failure only
\* after the gateway has tried the request again, and a permanent error is
\* never tried again.
C14_TransientRetried ==
    \A i \in DOMAIN calls :
        /\ (calls[i].outcome \in Transient /\ step_result = "None" /\ i = Len(calls))
           => \E j \in 1..(i - 1) : SameCall(i, j) /\ calls[j].outcome \in Transient
        /\ calls[i].outcome \in Permanent
           => \A j \in DOMAIN calls : SameCall(i, j) => j = i

\* -------------------------------------------------------------------- C15
\* the rounds of c whose three calls all returned a text
CompletedRounds(c) ==
    { i \in ReviewRepliesOf(c) : ClaudeMessages(c)[i].content # <<>> }

\* the completed rounds of c whose review reply was no acceptance
RejectedRounds(c) ==
    { i \in CompletedRounds(c) : ~HasYes(ClaudeMessages(c)[i].content) }

\* C15 as stated, its bound: the counter of a context is at least 1 and at
\* most MAX_ITERATIONS in every state, the returned context included.
C15_AtMostCap ==
    \A c \in Contexts : c.current_iteration \in 1..MAX_ITERATIONS

C15_Counter ==
    /\ \A c \in Contexts :
          /\ c.current_iteration = 1 + Cardinality(RejectedRounds(c))
          /\ Cardinality(CompletedRounds(c)) - Cardinality(RejectedRounds(c)) \in {0, 1}
          /\ c.current_iteration \in 1..(MAX_ITERATIONS + 1)
    /\ InProtocol => context.current_iteration <= MAX_ITERATIONS
    /\ \A i \in DOMAIN calls : calls[i].round <= MAX_ITERATIONS

C15_CounterStep ==
    /\ (context' # context /\ context'.step_name = context.step_name) =>
          /\ pc = "review"
          /\ context' = [context EXCEPT !.current_iteration = @ + 1]
    /\ context'.step_name # context.step_name => context'.current_iteration = 1

\* C15 amended: current_iteration starts at 1, is incremented exactly once
\* per round that ends in a rejection (not in the accepted round) and never
\* exceeds MAX_ITERATIONS + 1; it is above MAX_ITERATIONS only in the context
\* of an exhausted invocation, for which no further call is issued.
C15_CounterWithinCapPlusOne == []C15_Counter /\ [][C15_CounterStep]_vars

C15_Witness ==
    /\ pc = "done"
    /\ DOMAIN revision_contexts = {"Intro", "Body"}
    /\ revision_contexts["Intro"].current_iteration = MAX_ITERATIONS + 1
    /\ revision_contexts["Body"].current_iteration = 1
    /\ Cardinality(CallsOf("Intro", "review")) = MAX_ITERATIONS

\* -------------------------------------------------------------------- C16
\* C16: whatever the outcome of each step, the revision_requests mapping of
\* the plan object, and of the plan written to disk, is the one that was
\* loaded: no entry is removed, added or changed.
C16_RequestsUnchanged ==
    /\ (file.status = "ok" /\ pc # "load") =>
          /\ plan.keys = file.data.keys
          /\ plan.revision_requests = file.data.revision_requests
    /\ saved # NothingSaved =>
          saved.revision_requests = file.data.revision_requests

C16_Witness ==
    /\ pc = "done"
    /\ result.plan = "plan"
    /\ AcceptedSteps = {1}
    /\ ExhaustedSteps = {2}
    /\ DOMAIN Requests = {"Intro", "Body", "Ghost"}
    /\ saved.revision_requests = Requests

\* -------------------------------------------------------------------- C17
\* the plan lacks one of the two mappings, or a step lacks name or content
Malformed(p) ==
    \/ p.keys # PlanKeys
    \/ \E i \in DOMAIN p.Detailed_Outline :
          \/ p.Detailed_Outline[i].name = NoName
          \/ p.Detailed_Outline[i].content = Missing

\* C17: for a loaded plan that is malformed no model call is issued and no
\* step content is modified, wherever in the plan the malformed part is.
C17_NoPartialProcessing ==
    (file.status = "ok" /\ Malformed(file.data)) =>
        /\ calls = <<>>
        /\ pc # "load" =>
              \A i \in DOMAIN Outline : Outline[i].content = OriginalContent(i)

\* -------------------------------------------------------------------- C18
KindOrder == <<"instruct", "revise", "review">>

\* the number of requests issued for the step of calls[i], up to calls[i]
PositionInStep(i) ==
    Cardinality({ j \in 1..i : calls[j].step = calls[i].step })

\* the requests of a step come in the order instruct, revise, review,
\* round after round
C18_CallOrder ==
    \A i \in DOMAIN calls :
        /\ calls[i].kind = KindOrder[((PositionInStep(i) - 1) % 3) + 1]
        /\ calls[i].round = ((PositionInStep(i) - 1) \div 3) + 1

\* in the histories of a context: the reviser's new message of round k is
\* the instruct reply of round k, it is there before the reviser's reply,
\* and the review prompt of round k is about the reviser's reply of round k
C18_Chained ==
    \A c \in Contexts :
        LET cm == ClaudeMessages(c)
            gh == GeminiHistory(c)
        IN /\ \A i \in DOMAIN cm :
                 /\ i % 4 = 1 => cm[i].content.kind = "instruct"
                 /\ i % 4 = 3 => cm[i].content.kind = "review"
           /\ \A k \in 1..MAX_ITERATIONS :
                 /\ 2 * k <= Len(gh) =>
                       /\ 4 * k - 2 <= Len(cm)
                       /\ gh[2 * k - 1].content = cm[4 * k - 2].content
                 /\ 4 * k - 1 <= Len(cm) =>
                       /\ 2 * k <= Len(gh)
                       /\ cm[4 * k - 1].content.revised_content = gh[2 * k].content

\* the request that reached the reviser carries the instruct reply
C18_ReviserRequest ==
    (calls # <<>> /\ calls[Len(calls)].kind = "revise") =>
        /\ request.backend = "gemini"
        /\ request.message =
              ClaudeMessages(context)[4 * calls[Len(calls)].round - 2].content

\* the step is written, and the counter moved, only with a review reply
C18_DecideStep ==
    ( /\ pc # "load"
      /\ \/ plan' # plan
         \/ (context'.step_name = context.step_name /\ context' # context) )
    => ReviewReplied

\* C18: in every round the calls are instruct, revise, review in this
\* order; the reviser gets the instruct reply of the round as its new
\* message, the review is about the reviser's reply of the round, and the
\* verdict is decided only when the review reply is there.
C18_RoundOrder ==
    /\ [](C18_CallOrder /\ C18_Chained /\ C18_ReviserRequest)
    /\ [][C18_DecideStep]_vars

C18_Witness ==
    /\ pc = "after"
    /\ step_result = "plan"
    /\ context.current_iteration = 2
    /\ GeminiHistory(context)[2].content = V1
    /\ GeminiHistory(context)[4].content = V2
    /\ ClaudeMessages(context)[7].content.revised_content = V2
    /\ Len(ClaudeMessages(context)) = 8

\* -------------------------------------------------------------------- C19
\* the last request of the log, when it was issued for the current context
LastCall == calls[Len(calls)]

\* C19: every request carries the whole conversation of the earlier rounds
\* of the step: an instructor request of round k holds the 4(k-1) messages
\* of the instruct and review exchanges of rounds 1..k-1, in order, before
\* the messages of round k, and a reviser request of round k holds the
\* 2(k-1) messages of the revise exchanges of rounds 1..k-1.
C19_FullHistorySent ==
    (calls # <<>> /\ context.step_name = LastCall.step) =>
        LET k == LastCall.round
            cm == ClaudeMessages(context)
            gh == GeminiHistory(context)
        IN /\ LastCall.kind = "instruct" =>
                 /\ request.backend = "claude"
                 /\ Len(request.history) = 4 * (k - 1) + 1
                 /\ IsPrefix(request.history, cm)
           /\ LastCall.kind = "review" =>
                 /\ request.backend = "claude"
                 /\ Len(request.history) = 4 * (k - 1) + 3
                 /\ IsPrefix(request.history, cm)
           /\ LastCall.kind = "revise" =>
                 /\ request.backend = "gemini"
                 /\ request.history = GeminiFormat(SubSeq(gh, 1, 2 * (k - 1)))
                 /\ request.message = cm[4 * k - 2].content

C19_Witness ==
    /\ pc = "review"
    /\ LastCall.kind = "revise"
    /\ LastCall.round = 3
    /\ Len(request.history) = 4
    /\ request.history[2].parts = <<V1>>
    /\ request.history[4].parts = <<V2>>
    /\ Len(ClaudeMessages(context)) = 10

\* -------------------------------------------------------------------- C20
\* C20: the batch is saved as a whole or not at all: whenever the Driver
\* has reported failure nothing has been written (no RevisedPlan.json, no
\* timestamped JSON, no Markdown), also when steps were accepted before the
\* failure, and anything that has been written is the plan the Driver
\* returned.
C20_SavedOnlyOnPlan ==
    /\ result.plan = "None" => saved = NothingSaved
    /\ saved # NothingSaved =>
          /\ pc = "done"
          /\ result.plan = "plan"
          /\ saved.outline = plan.Detailed_Outline
    /\ (pc = "done" /\ result.plan = "plan") => saved # NothingSaved

\* a step was accepted and rewritten in memory, then a later step aborted
C20_Witness ==
    /\ pc = "done"
    /\ result.plan = "None"
    /\ step_result = "None"
    /\ 1 \in AcceptedSteps
    /\ plan.Detailed_Outline[1].content # OriginalContent(1)
    /\ saved = NothingSaved

\* -------------------------------------------------------------------- C21
\* the names of the steps of an outline
Names(outline) == { outline[n].name : n \in DOMAIN outline }

\* the plan the pipeline has compiled
Compiled == pipeline.pc \in {"save_plan_outputs", "done"}

\* C21: in the plan the pipeline compiles, and in every plan the Driver
\* returns a result for, every key of Evaluation_Criteria and of
\* revision_requests is the name of a step of Detailed_Outline.
C21_KeysNameSteps ==
    /\ Compiled =>
          /\ DOMAIN pipeline.final_plan.Evaluation_Criteria
                \subseteq Names(pipeline.final_plan.Detailed_Outline)
          /\ DOMAIN pipeline.final_plan.revision_requests
                \subseteq Names(pipeline.final_plan.Detailed_Outline)
    /\ DriverSucceeded => DOMAIN Requests \subseteq Names(Outline)

\* the part the pipeline does keep: a request is generated only for a
\* draft, and a draft only for a step of the outline
C21_RequestsNameSteps ==
    /\ DOMAIN pipeline.revision_requests \subseteq DOMAIN pipeline.drafts
    /\ DOMAIN pipeline.drafts \subseteq Names(pipeline.plan.Detailed_Outline)
    /\ Compiled =>
          DOMAIN pipeline.final_plan.revision_requests
             \subseteq Names(pipeline.final_plan.Detailed_Outline)

\* -------------------------------------------------------------------- C22
\* an invocation of the protocol is under way or has just returned
Invoked == pc \in Kinds \cup {"after"}

\* until the acceptance the step holds the content it was invoked with
C22_Unwritten ==
    (Invoked /\ ~(pc = "after" /\ Accepted(context))) =>
        /\ Outline[idx].content = context.original_content
        /\ Outline[idx].content = OriginalContent(idx)

\* the plan changes only in the step that receives an accepting review
\* reply: that step ends the invocation, writes the round's revision into
\* the step under revision, which held its original content until then,
\* and into no other step
C22_WriteStep ==
    (pc # "load" /\ plan' # plan) =>
        /\ ReviewReplied
        /\ HasYes(NewReply.content)
        /\ pc' = "after"
        /\ step_result' = "plan"
        /\ plan.Detailed_Outline[idx].content = context.original_content
        /\ plan' = SetContent(plan, idx, revised_content)

\* C22: Step.content is written at most once per invocation of the
\* protocol, and only in the transition to acceptance; in every other state
\* of the invocation, also after an abort that follows rejected rounds with
\* reviser output, the step holds the content it had before the invocation.
C22_WrittenOnceOnAccept ==
    /\ []C22_Unwritten
    /\ [][C22_WriteStep]_vars

\* an abort in round 3, after two rejected rounds that produced revisions
C22_Witness ==
    /\ pc = "after"
    /\ step_result = "None"
    /\ context.current_iteration = 3
    /\ Len(GeminiHistory(context)) >= 4
    /\ GeminiHistory(context)[4].content = V2
    /\ Outline[idx].content = C0
    /\ context.original_content = C0

\* -------------------------------------------------------------------- C23
\* c stands between two rounds: its next round is about to start, or its
\* invocation has returned the plan
AtBoundary(c) ==
    \/ pc = "instruct" /\ c = context
    \/ pc = "after" /\ step_result = "plan" /\ c = context
    \/ \E n \in DOMAIN revision_contexts : c = revision_contexts[n]

\* after r completed rounds the instructor history has 4r messages and the
\* reviser history 2r
C23_Counts ==
    \A c \in Contexts :
        AtBoundary(c) =>
            LET r == Cardinality(CompletedRounds(c))
            IN /\ Len(ClaudeMessages(c)) = 4 * r
               /\ Len(GeminiHistory(c)) = 2 * r
               /\ (pc = "instruct" /\ c = context) => r = c.current_iteration - 1

\* the roles alternate in both histories, in every state
C23_Alternate ==
    \A c \in Contexts :
        /\ \A i \in DOMAIN ClaudeMessages(c) :
              ClaudeMessages(c)[i].role = IF i % 2 = 1 THEN "user" ELSE "assistant"
        /\ \A i \in DOMAIN GeminiHistory(c) :
              GeminiHistory(c)[i].role = IF i % 2 = 1 THEN "user" ELSE "model"

\* an instructor call leaves the reviser history alone, and a reviser call
\* the instructor history
C23_Independent ==
    /\ pc \in {"instruct", "review"} =>
          heap'[context.gemini_history] = heap[context.gemini_history]
    /\ pc = "revise" =>
          heap'[context.claude_messages] = heap[context.claude_messages]

\* C23: after r completed rounds the instructor history holds exactly 4r
\* messages, user and assistant in turn, and the reviser history exactly 2r
\* messages, user and model in turn; a call changes only the history of its
\* own provider; no history ever has two neighbouring messages of one role.
C23_HistoryShape ==
    /\ [](C23_Counts /\ C23_Alternate)
    /\ [][C23_Independent]_vars

C23_Witness ==
    /\ pc = "instruct"
    /\ context.current_iteration = 3
    /\ Len(ClaudeMessages(context)) = 8
    /\ Len(GeminiHistory(context)) = 4
    /\ ClaudeMessages(context)[7].role = "user"
    /\ ClaudeMessages(context)[8].role = "assistant"
    /\ GeminiHistory(context)[4].role = "model"

\* -------------------------------------------------------------------- C24
\* the step issues a request that the provider fails
FailedCallStep(kinds) ==
    /\ calls' # calls
    /\ calls'[Len(calls')].kind \in kinds
    /\ calls'[Len(calls')].outcome \in ErrorKinds

\* what a failed call does to the two histories
C24_FailedCall ==
    /\ FailedCallStep({"instruct", "review"}) =>
          /\ Len(ClaudeMessages(context)') = Len(ClaudeMessages(context)) + 1
          /\ IsPrefix(ClaudeMessages(context), ClaudeMessages(context)')
          /\ ClaudeMessages(context)'[Len(ClaudeMessages(context)')].role = "user"
          /\ ClaudeMessages(context)'[Len(ClaudeMessages(context)')].content
                = request'.history[Len(request'.history)].content
          /\ GeminiHistory(context)' = GeminiHistory(context)
    /\ FailedCallStep({"revise"}) =>
          /\ GeminiHistory(context)' = GeminiHistory(context)
          /\ ClaudeMessages(context)' = ClaudeMessages(context)

\* the histories of an invocation that a failed call has ended
C24_AfterFailure ==
    (LastCallFailed /\ context.step_name = LastCall.step) =>
        LET cm == ClaudeMessages(context)
            gh == GeminiHistory(context)
            k == LastCall.round
        IN /\ LastCall.kind = "instruct" =>
                 Len(cm) = 4 * k - 3 /\ cm[Len(cm)].role = "user" /\ Len(gh) = 2 * (k - 1)
           /\ LastCall.kind = "revise" =>
                 Len(cm) = 4 * k - 2 /\ cm[Len(cm)].role = "assistant" /\ Len(gh) = 2 * (k - 1)
           /\ LastCall.kind = "review" =>
                 Len(cm) = 4 * k - 1 /\ cm[Len(cm)].role = "user" /\ Len(gh) = 2 * k

\* C24: a failed instructor call leaves its request in the instructor
\* history, as a last user message without a reply (the history has grown
\* by one); a failed reviser call leaves the reviser history as it was
\* before the call, with neither the request nor a reply in it.
C24_FailureEffects ==
    /\ []C24_AfterFailure
    /\ [][C24_FailedCall]_vars

\* the reviser failed in round 2
C24_Witness ==
    /\ pc = "after"
    /\ LastCallFailed
    /\ LastCall.kind = "revise"
    /\ LastCall.round = 2
    /\ Len(GeminiHistory(context)) = 2
    /\ Len(ClaudeMessages(context)) = 6

\* the instructor failed in the review of round 2
C24_WitnessInstructor ==
    /\ pc = "after"
    /\ LastCallFailed
    /\ LastCall.kind = "review"
    /\ LastCall.round = 2
    /\ Len(ClaudeMessages(context)) = 7
    /\ ClaudeMessages(context)[7].role = "user"

\* -------------------------------------------------------------------- C25
\* the positions of the empty replies in the two histories of c
EmptyInstructorReplies(c) ==
    { i \in DOMAIN ClaudeMessages(c) :
        ClaudeMessages(c)[i].role = "assistant" /\ ClaudeMessages(c)[i].content = <<>> }

EmptyReviserReplies(c) ==
    { i \in DOMAIN GeminiHistory(c) :
        GeminiHistory(c)[i].role = "model" /\ GeminiHistory(c)[i].content = <<>> }

\* C25: a call that succeeds with the empty text ends the invocation as a
\* failed call does: the protocol returns None with the context of that
\* round, no further request is issued, the Driver records no context for
\* the step, reports failure and nothing is saved; the request and the
\* empty reply are the last two messages of the history of the provider.
C25_EmptyReplyAborts ==
    \A c \in Contexts :
        (EmptyInstructorReplies(c) # {} \/ EmptyReviserReplies(c) # {}) =>
            /\ c = context
            /\ pc \in {"after", "ret", "done"}
            /\ step_result = "None"
            /\ LastCall.step = c.step_name
            /\ LastCall.round = c.current_iteration
            /\ LastCall.outcome = "ok"
            /\ EmptyInstructorReplies(c) \subseteq {Len(ClaudeMessages(c))}
            /\ EmptyReviserReplies(c) \subseteq {Len(GeminiHistory(c))}
            /\ LastCall.kind = "revise" <=> EmptyReviserReplies(c) # {}
            /\ LastCall.kind \in {"instruct", "review"} =>
                  ClaudeMessages(c)[Len(ClaudeMessages(c)) - 1].role = "user"
            /\ LastCall.kind = "revise" =>
                  GeminiHistory(c)[Len(GeminiHistory(c)) - 1].role = "user"
            /\ c.step_name \notin DOMAIN revision_contexts
            /\ Outline[idx].content = c.original_content
            /\ pc \in {"ret", "done"} => result.plan = "None"
            /\ saved = NothingSaved

\* the reviser answered the second round with the empty text
C25_Witness ==
    /\ pc = "done"
    /\ result.plan = "None"
    /\ calls # <<>>
    /\ LastCall.outcome = "ok"
    /\ LastCall.kind = "revise"
    /\ LastCall.round = 2
    /\ Len(GeminiHistory(context)) = 4
    /\ GeminiHistory(context)[4] = Msg("model", <<>>)
    /\ saved = NothingSaved

\* -------------------------------------------------------------------- C26
\* the number of the round the last instructor message of c belongs to,
\* counted from the history and not from the counter
RoundOfLastMessage(c) == (Len(ClaudeMessages(c)) + 3) \div 4

\* the last review reply of c is an acceptance
AcceptedLast(c) ==
    /\ Len(ClaudeMessages(c)) > 0
    /\ Len(ClaudeMessages(c)) % 4 = 0
    /\ IsAccepted(ClaudeMessages(c)[Len(ClaudeMessages(c))].content)

\* the counter of a context that revise_step_with_llms has returned
C26_Returned(c, first) ==
    /\ (first = "plan" /\ AcceptedLast(c)) =>
          c.current_iteration = RoundOfLastMessage(c)
    /\ (first = "plan" /\ ~AcceptedLast(c)) =>
          /\ c.current_iteration = MAX_ITERATIONS + 1
          /\ Len(ClaudeMessages(c)) = 4 * MAX_ITERATIONS
    /\ first = "None" =>
          /\ c.current_iteration = RoundOfLastMessage(c)
          /\ c.current_iteration = LastCall.round
          /\ c.current_iteration <= MAX_ITERATIONS

\* C26: the returned context has the counter at k after an acceptance in
\* round k, at MAX_ITERATIONS + 1 after exhaustion, and at the round of the
\* failure after an abort; the counter of a context is always between 1 and
\* MAX_ITERATIONS + 1.
C26_CounterOfReturnedContext ==
    /\ pc = "after" => C26_Returned(context, step_result)
    /\ \A n \in DOMAIN revision_contexts : C26_Returned(revision_contexts[n], "plan")
    /\ \A c \in Contexts : c.current_iteration \in 1..(MAX_ITERATIONS + 1)

\* one step accepted in round 2, the next exhausted, both recorded
C26_Witness ==
    /\ pc = "done"
    /\ DOMAIN revision_contexts = {"Intro", "Body"}
    /\ revision_contexts["Intro"].current_iteration = 2
    /\ AcceptedLast(revision_contexts["Intro"])
    /\ revision_contexts["Body"].current_iteration = MAX_ITERATIONS + 1

\* an abort in round 3
C26_WitnessAbort ==
    /\ pc = "after"
    /\ step_result = "None"
    /\ context.current_iteration = 3
    /\ LastCall.kind = "instruct"
    /\ Len(ClaudeMessages(context)) \in {9, 10}

\* -------------------------------------------------------------------- C27
\* the names of the steps of the outline that have a pending request
SelectedNames == Names(Outline) \cap DOMAIN Requests

\* the names of the selected steps that precede the step the loop is at
SelectedBefore ==
    { Outline[i].name : i \in { j \in 1..(idx - 1) : Outline[j].name \in DOMAIN Requests } }

\* the invocation of c ended with the plan returned
Completed(c) == AcceptedLast(c) \/ c.current_iteration = MAX_ITERATIONS + 1

\* the loop was at a step whose request is null: line 314 raised outside
\* the inner try
LoopRaised ==
    /\ idx >= 1
    /\ idx <= Len(Outline)
    /\ Outline[idx].name \in DOMAIN Requests
    /\ Requests[Outline[idx].name] = Null

\* C27: the mapping further_revise_plan returns has, on success, one
\* context for each step that is named in revision_requests, and no other
\* entry; after a step's protocol returned None it has the contexts of the
\* steps completed before that step and not the context of the aborted
\* step; after an exception raised in the loop itself it is empty.
C27_ReturnedContexts ==
    result # Pending =>
        /\ result.plan = "plan" =>
              /\ DOMAIN result.contexts = SelectedNames
              /\ \A n \in SelectedNames :
                    result.contexts[n].step_name = n /\ Completed(result.contexts[n])
        /\ (result.plan = "None" /\ step_result = "None") =>
              /\ DOMAIN result.contexts = SelectedBefore
              /\ context.step_name = Outline[idx].name
              /\ context.step_name \notin DOMAIN result.contexts
              /\ \A n \in SelectedBefore :
                    result.contexts[n].step_name = n /\ Completed(result.contexts[n])
        /\ (result.plan = "None" /\ LoopRaised) => result.contexts = NoContexts

\* the second step was aborted after the first was completed
C27_Witness ==
    /\ pc = "done"
    /\ result.plan = "None"
    /\ step_result = "None"
    /\ context.step_name = "Body"
    /\ DOMAIN result.contexts = {"Intro"}
    /\ result.contexts["Intro"].step_name = "Intro"

\* the loop raised at the second step after the first was completed
C27_WitnessLoopRaised ==
    /\ pc = "done"
    /\ result = Failed
    /\ idx = 2
    /\ LoopRaised
    /\ DOMAIN revision_contexts = {"Intro"}

\* -------------------------------------------------------------------- C28
\* the keys of revision_requests that name no step of the outline
Dangling == DOMAIN Requests \ Names(Outline)

\* the plan without them
WithoutDangling(p) ==
    [p EXCEPT !.revision_requests =
        [n \in DOMAIN @ \cap Names(p.Detailed_Outline) |-> @[n]]]

\* the plan is loaded
Loaded == file.status = "ok" /\ pc # "load"

\* no invocation, no request and no context for a dangling key
C28_NoInvocation ==
    \A n \in Dangling :
        /\ \A k \in Kinds : CallsOf(n, k) = {}
        /\ n \notin DOMAIN revision_contexts
        /\ n \notin DOMAIN result.contexts
        /\ context.step_name # n

\* a failure has a cause that the plan without the dangling keys has too:
\* a missing key or name, a null request or a missing content at the step
\* the loop is at, or a protocol that returned None
C28_NoFailure ==
    /\ pc = "crashed" => CountRaises(WithoutDangling(plan))
    /\ result.plan = "None" =>
          \/ step_result = "None"
          \/ LoopRaised
          \/ /\ idx >= 1
             /\ Outline[idx].name \in DOMAIN WithoutDangling(plan).revision_requests
             /\ Outline[idx].content = Missing

\* a step changes only if it is selected and a review was requested for it
C28_NoChange ==
    \A i \in DOMAIN Outline :
        Outline[i].content # OriginalContent(i) =>
            /\ Outline[i].name \in SelectedNames
            /\ CallsOf(Outline[i].name, "review") # {}

\* with dangling keys only, the run is the run of a plan without requests
C28_AsWithoutRequests ==
    (SelectedNames = {} /\ ~CountRaises(plan)) =>
        /\ calls = <<>>
        /\ heap = <<>>
        /\ revision_contexts = NoContexts
        /\ pc \in {"ret", "done"} => result = [plan |-> "plan", contexts |-> NoContexts]
        /\ pc = "done" => saved.outline = file.data.Detailed_Outline

\* C28: a key of revision_requests that names no step of the outline is
\* ignored: no invocation, no request and no context exists for it, it is
\* no cause of a failure, no step changes because of it, and a plan that
\* has only such keys is processed as the plan with no request at all.
C28_DanglingKeyIgnored ==
    Loaded =>
        /\ C28_NoInvocation
        /\ C28_NoFailure
        /\ C28_NoChange
        /\ C28_AsWithoutRequests

\* a batch with the dangling key Ghost, whose request is null, succeeded
C28_Witness ==
    /\ pc = "done"
    /\ result.plan = "plan"
    /\ "Ghost" \in Dangling
    /\ Requests["Ghost"] = Null
    /\ Len(Outline) = 2
    /\ DOMAIN result.contexts = {"Intro", "Body"}
    /\ saved # NothingSaved

\* a plan with the dangling key only
C28_WitnessOnlyDangling ==
    /\ pc = "done"
    /\ Dangling = {"Ghost"}
    /\ SelectedNames = {}
    /\ Len(Outline) = 2
    /\ result = [plan |-> "plan", contexts |-> NoContexts]

\* -------------------------------------------------------------------- C29
\* the list "Revision 1 .. Revision k" of the reviser outputs of c
Revisions(c, k) ==
    [j \in 1..k |->
        [label |-> "Revision", n |-> j, content |-> GeminiHistory(c)[2 * j].content]]

\* C29: the history formatted into a prompt lists the reviser's replies
\* only, in order and numbered from 1: the instruct prompt of round k lists
\* the revisions 1..k-1 ("No previous revisions" in round 1) and the review
\* prompt of round k the revisions 1..k, revision j being the reviser's
\* output of round j.
C29_FormattedHistory ==
    \A c \in Contexts :
        \A k \in 1..MAX_ITERATIONS :
            /\ 4 * k - 3 <= Len(ClaudeMessages(c)) =>
                  /\ 2 * (k - 1) <= Len(GeminiHistory(c))
                  /\ ClaudeMessages(c)[4 * k - 3].content.history =
                        IF k = 1 THEN NoPreviousRevisions ELSE Revisions(c, k - 1)
            /\ 4 * k - 1 <= Len(ClaudeMessages(c)) =>
                  /\ 2 * k <= Len(GeminiHistory(c))
                  /\ ClaudeMessages(c)[4 * k - 1].content.history = Revisions(c, k)
                  /\ \A j \in 1..k : GeminiHistory(c)[2 * j].role = "model"

\* the review prompt of round 3 lists three revisions
C29_Witness ==
    /\ pc = "after"
    /\ Len(ClaudeMessages(context)) >= 11
    /\ ClaudeMessages(context)[1].content.history = NoPreviousRevisions
    /\ Len(ClaudeMessages(context)[9].content.history) = 2
    /\ Len(ClaudeMessages(context)[11].content.history) = 3
    /\ ClaudeMessages(context)[11].content.history[3] =
          [label |-> "Revision", n |-> 3, content |-> V1]
    /\ ClaudeMessages(context)[11].content.history[2].content = V2

====
